---------------------------- MODULE Spec2Model ----------------------------
(* py2lscvm: a compiler from a Python subset to LSCVM opcode strings.      *)
(* An opcode string is modelled as a sequence of code points (chr/ord of   *)
(* Python), so that "a" is 97, "A" is 65, " " is 32.                        *)
EXTENDS Integers, Sequences, FiniteSets, TLC

(***************************************************************************)
(* Bounds of the model                                                     *)
(***************************************************************************)
MaxNum == 10000
MaxSteps == 400
MaxLoop == 10
MaxFill == 14
MaxOperand == 3
MaxElts == 3
MaxArrays == 2
MaxParams == 3
MaxValues == 3

(***************************************************************************)
(* opcodes.py                                                              *)
(***************************************************************************)
NOP == 32
CALL == 67
RETURN == 82
GO == 71
CONDITIONAL_JUMP == 90
EXIT == 66
PRINT_NUM == 73
PRINT_ASCII == 80
HEAP_READ == 69
HEAP_WRITE == 75
STACK_FIND == 70
STACK_FIND_REMOVE == 72
STACK_COMPARE == 74
STACK_DROP == 68
STACK_ADD == 65
STACK_SUBTRACT == 83
STACK_MULTIPLY == 77
STACK_DIVIDE == 86
STACK_0 == 97
STACK_1 == 98
STACK_2 == 99
STACK_3 == 100
STACK_4 == 101
STACK_5 == 102
STACK_6 == 103
STACK_7 == 104
STACK_8 == 105
STACK_9 == 106

\* the keys of opcodes.stack_effect: the opcode alphabet
stack_effect ==
    (NOP :> 0) @@ (CALL :> -1) @@ (RETURN :> 0) @@ (GO :> -1) @@
    (CONDITIONAL_JUMP :> -2) @@ (EXIT :> 0) @@ (PRINT_NUM :> -1) @@
    (PRINT_ASCII :> -1) @@ (HEAP_READ :> 0) @@ (HEAP_WRITE :> -2) @@
    (STACK_FIND :> 0) @@ (STACK_FIND_REMOVE :> -1) @@ (STACK_COMPARE :> -1) @@
    (STACK_DROP :> -1) @@ (STACK_ADD :> -1) @@ (STACK_SUBTRACT :> -1) @@
    (STACK_MULTIPLY :> -1) @@ (STACK_DIVIDE :> -1) @@
    (STACK_0 :> 1) @@ (STACK_1 :> 1) @@ (STACK_2 :> 1) @@ (STACK_3 :> 1) @@
    (STACK_4 :> 1) @@ (STACK_5 :> 1) @@ (STACK_6 :> 1) @@ (STACK_7 :> 1) @@
    (STACK_8 :> 1) @@ (STACK_9 :> 1)

Alphabet == DOMAIN stack_effect

(***************************************************************************)
(* Results of the translation routines: an opcode string, or the           *)
(* exception the routine raises.                                           *)
(***************************************************************************)
Ok(s) == [err |-> "none", ops |-> s]
Raise(e) == [err |-> e, ops |-> <<>>]
IsOk(r) == r.err = "none"

\* r1 + r2 where r1 is evaluated first: the first exception propagates
Cat(r1, r2) ==
    IF ~IsOk(r1) THEN r1
    ELSE IF ~IsOk(r2) THEN r2
    ELSE Ok(r1.ops \o r2.ops)

\* the built-in chr(): ValueError outside range(0x110000)
MaxCodePoint == 1114111
chr(k) == IF k >= 0 /\ k <= MaxCodePoint THEN Ok(<<k>>) ELSE Raise("ValueError")

(***************************************************************************)
(* helpers.py                                                              *)
(***************************************************************************)
\* int(sqrt(n + 0.05)) for an integer n >= 0
ISqrt(n) == CHOOSE k \in 0..n : k * k <= n /\ (k + 1) * (k + 1) > n

SetMin(S) == CHOOSE x \in S : \A y \in S : x <= y

RECURSIVE factoriseFrom(_, _)
factoriseFrom(n, j) ==
    IF n <= 1 THEN <<>>
    ELSE LET divs == {i \in j..ISqrt(n) : n % i = 0}
         IN  IF divs = {} THEN <<n>>
             ELSE LET i == SetMin(divs)
                  IN  <<i>> \o factoriseFrom(n \div i, i)

factorise(n) == factoriseFrom(n, 2)

RECURSIVE Product(_)
Product(s) == IF s = <<>> THEN 1 ELSE Head(s) * Product(Tail(s))

RECURSIVE compressLoop(_, _, _)
compressLoop(factors, temp, out) ==
    IF factors = <<>> THEN
        IF temp # <<>> /\ Product(temp) <= 9
        THEN Append(out, Product(temp))
        ELSE out \o temp
    ELSE LET factor == Head(factors)
             mult_temp == Product(temp)
         IN  IF mult_temp * factor > 9
             THEN compressLoop(Tail(factors), <<factor>>, Append(out, mult_temp))
             ELSE compressLoop(Tail(factors), Append(temp, factor), out)

\* compress_factors with "return out" for "return out + temp"
compress_factors_out(factors) ==
    LET r == compressLoop(factors, <<>>, <<>>)
    IN  IF r # <<>> /\ r[Len(r)] > 9 THEN SubSeq(r, 1, Len(r) - 1) ELSE r

compress_factors(factors) == compressLoop(factors, <<>>, <<>>)

RECURSIVE num(_)
RECURSIVE numFactors(_, _)
numFactors(fs, first_opcode) ==
    IF fs = <<>> THEN Ok(<<>>)
    ELSE LET factor == Head(fs)
             lit == IF factor <= 9 THEN chr(97 + factor)
                    ELSE IF factor <= 18 THEN num(factor)
                    ELSE Cat(chr(97 + 1), Cat(num(factor - 1), Ok(<<STACK_ADD>>)))
             mul == IF first_opcode THEN Ok(<<>>) ELSE Ok(<<STACK_MULTIPLY>>)
         IN  Cat(lit, Cat(mul, numFactors(Tail(fs), FALSE)))

num(i) ==
    IF i <= 9 THEN chr(97 + i)
    ELSE IF i <= 18 THEN Cat(chr(97 + 9), Cat(chr(97 + (i - 9)), Ok(<<STACK_ADD>>)))
    ELSE numFactors(compress_factors(factorise(i)), TRUE)

(***************************************************************************)
(* The LSCVM: the machine the opcode strings run on.                       *)
(***************************************************************************)
Sign(x) == IF x > 0 THEN 1 ELSE IF x < 0 THEN -1 ELSE 0

IntDiv(a, b) == IF b > 0 THEN a \div b ELSE (0 - a) \div (0 - b)

RECURSIVE Digits(_)
Digits(n) == IF n < 10 THEN <<48 + n>> ELSE Append(Digits(n \div 10), 48 + (n % 10))

\* str(n)
IntToStr(n) == IF n < 0 THEN <<45>> \o Digits(0 - n) ELSE Digits(n)

HeapGet(h, a) == IF a \in DOMAIN h THEN h[a] ELSE 0

EmptyHeap == [a \in {} |-> 0]

LoadVM(code, stack, heap) ==
    [code |-> code, ip |-> 0, stack |-> stack, heap |-> heap, out |-> <<>>,
     calls |-> <<>>, seen |-> {}, steps |-> 0, status |-> "run"]

IdleVM == [LoadVM(<<>>, <<>>, EmptyHeap) EXCEPT !.status = "idle"]

\* the stack without its top k values
DropTop(s, k) == SubSeq(s, 1, Len(s) - k)

StepVM(m) ==
    IF m.ip < 0 THEN [m EXCEPT !.status = "error"]
    ELSE IF m.ip >= Len(m.code) THEN [m EXCEPT !.status = "halt"]
    ELSE
    LET c == m.code[m.ip + 1]
        n == Len(m.stack)
        s == m.stack
        f == [m EXCEPT !.ip = @ + 1, !.seen = @ \cup {m.ip}, !.steps = @ + 1]
        bad == [f EXCEPT !.status = "error"]
        need == IF c \in STACK_0..STACK_9 \/ c \in {NOP, EXIT, RETURN} THEN 0
                ELSE IF c \in {CALL, GO, PRINT_NUM, PRINT_ASCII, HEAP_READ,
                               STACK_FIND, STACK_FIND_REMOVE, STACK_DROP} THEN 1
                ELSE 2
    IN  IF c \notin Alphabet \/ n < need THEN bad
        ELSE IF c \in STACK_0..STACK_9 THEN [f EXCEPT !.stack = Append(s, c - 97)]
        ELSE IF c = NOP THEN f
        ELSE IF c = EXIT THEN [f EXCEPT !.status = "halt"]
        ELSE IF c = STACK_ADD THEN
            [f EXCEPT !.stack = Append(DropTop(s, 2), s[n - 1] + s[n])]
        ELSE IF c = STACK_SUBTRACT THEN
            [f EXCEPT !.stack = Append(DropTop(s, 2), s[n - 1] - s[n])]
        ELSE IF c = STACK_MULTIPLY THEN
            [f EXCEPT !.stack = Append(DropTop(s, 2), s[n - 1] * s[n])]
        ELSE IF c = STACK_DIVIDE THEN
            IF s[n] = 0 THEN bad
            ELSE [f EXCEPT !.stack = Append(DropTop(s, 2), IntDiv(s[n - 1], s[n]))]
        ELSE IF c = STACK_COMPARE THEN
            [f EXCEPT !.stack = Append(DropTop(s, 2), Sign(s[n - 1] - s[n]))]
        ELSE IF c = STACK_DROP THEN [f EXCEPT !.stack = DropTop(s, 1)]
        ELSE IF c = STACK_FIND THEN
            IF s[n] < 0 \/ s[n] > n - 2 THEN bad
            ELSE [f EXCEPT !.stack = Append(DropTop(s, 1), s[n - 1 - s[n]])]
        ELSE IF c = STACK_FIND_REMOVE THEN
            IF s[n] < 0 \/ s[n] > n - 2 THEN bad
            ELSE LET k == n - 1 - s[n]
                 IN  [f EXCEPT !.stack =
                        Append(SubSeq(s, 1, k - 1) \o SubSeq(s, k + 1, n - 1), s[k])]
        ELSE IF c = HEAP_READ THEN
            IF s[n] < 0 THEN bad
            ELSE [f EXCEPT !.stack = Append(DropTop(s, 1), HeapGet(m.heap, s[n]))]
        ELSE IF c = HEAP_WRITE THEN
            IF s[n] < 0 THEN bad
            ELSE [f EXCEPT !.stack = DropTop(s, 2),
                           !.heap = [a \in DOMAIN m.heap \cup {s[n]} |->
                                        IF a = s[n] THEN s[n - 1] ELSE m.heap[a]]]
        ELSE IF c = GO THEN
            [f EXCEPT !.stack = DropTop(s, 1), !.ip = m.ip + 1 + s[n]]
        ELSE IF c = CONDITIONAL_JUMP THEN
            [f EXCEPT !.stack = DropTop(s, 2),
                      !.ip = IF s[n - 1] = 0 THEN m.ip + 1 + s[n] ELSE m.ip + 1]
        ELSE IF c = CALL THEN
            [f EXCEPT !.stack = DropTop(s, 1), !.ip = s[n],
                      !.calls = Append(@, m.ip + 1)]
        ELSE IF c = RETURN THEN
            IF m.calls = <<>> THEN bad
            ELSE [f EXCEPT !.ip = m.calls[Len(m.calls)],
                           !.calls = DropTop(m.calls, 1)]
        ELSE IF c = PRINT_NUM THEN
            [f EXCEPT !.stack = DropTop(s, 1), !.out = @ \o IntToStr(s[n])]
        ELSE \* PRINT_ASCII
            [f EXCEPT !.stack = DropTop(s, 1), !.out = Append(@, s[n])]

(***************************************************************************)
(* The syntax trees handed over by ast.parse, as records tagged by the     *)
(* class name of the node (helpers.class_name).                            *)
(***************************************************************************)
Num(n) == [kind |-> "Num", n |-> n]
Name(id) == [kind |-> "Name", id |-> id]
Attribute(id) == [kind |-> "Attribute", attr |-> id]
List(elts) == [kind |-> "List", elts |-> elts]
Subscript(id, index, ctx) ==
    [kind |-> "Subscript", value |-> Name(id), index |-> index, ctx |-> ctx]
BinOp(left, op, right) == [kind |-> "BinOp", left |-> left, op |-> op, right |-> right]
BoolOp(op, values) == [kind |-> "BoolOp", op |-> op, values |-> values]
Compare(left, ops, comparators) ==
    [kind |-> "Compare", left |-> left, ops |-> ops, comparators |-> comparators]
Call(func, args) == [kind |-> "Call", func |-> func, args |-> args]
Assign(targets, value) == [kind |-> "Assign", targets |-> targets, value |-> value]
AugAssign(target, op, value) ==
    [kind |-> "AugAssign", target |-> target, op |-> op, value |-> value]
If(test, body, orelse) == [kind |-> "If", test |-> test, body |-> body, orelse |-> orelse]
While(test, body, orelse) ==
    [kind |-> "While", test |-> test, body |-> body, orelse |-> orelse]
Expr(value) == [kind |-> "Expr", value |-> value]
Return(value) == [kind |-> "Return", value |-> value]
Pass == [kind |-> "Pass"]
ImportFrom(module) == [kind |-> "ImportFrom", module |-> module]
FunctionDef(name, args, body) ==
    [kind |-> "FunctionDef", name |-> name, args |-> args, body |-> body]

(***************************************************************************)
(* translator.py: constants                                                *)
(***************************************************************************)
FUNCTION_OFFSET_START == 10
MAX_VARIABLES == 32
VARIABLE_OFFSET == 0
MAX_ARRAY == 128
ARRAY_OFFSET == 32

(***************************************************************************)
(* translator.py: VariableCounter.  variables is a dict in insertion       *)
(* order: a sequence of [name, size] in which a repeated key is updated    *)
(* in place.                                                               *)
(***************************************************************************)
DictHas(d, name) == \E k \in 1..Len(d) : d[k].name = name

DictIndex(d, name) == CHOOSE k \in 1..Len(d) : d[k].name = name

DictSet(d, name, size) ==
    IF DictHas(d, name)
    THEN [d EXCEPT ![DictIndex(d, name)].size = size]
    ELSE Append(d, [name |-> name, size |-> size])

\* the targets that have an id attribute
HasId(node) == node.kind = "Name"

visit_Assign(c, node) ==
    IF ~IsOk(c) THEN c
    ELSE IF node.value.kind = "List" THEN
        IF HasId(node.targets[1])
        THEN [c EXCEPT !.ops = DictSet(@, node.targets[1].id, Len(node.value.elts))]
        ELSE Raise("AttributeError")
    ELSE IF node.targets[1].kind # "Subscript" THEN
        IF HasId(node.targets[1])
        THEN [c EXCEPT !.ops = DictSet(@, node.targets[1].id, 1)]
        ELSE Raise("AttributeError")
    ELSE c

visit_AugAssign(c, node) ==
    IF ~IsOk(c) THEN c
    ELSE IF HasId(node.target)
    THEN [c EXCEPT !.ops = DictSet(@, node.target.id, 1)]
    ELSE Raise("AttributeError")

\* NodeVisitor.visit over a statement list; c is the counter so far (its
\* variables in .ops), node_name the class of the tree the counter was made for
RECURSIVE visit(_, _, _)
visit(c, nodes, node_name) ==
    IF nodes = <<>> \/ ~IsOk(c) THEN c
    ELSE LET node == Head(nodes)
             c1 == IF node.kind = "Assign" THEN visit_Assign(c, node)
                   ELSE IF node.kind = "AugAssign" THEN visit_AugAssign(c, node)
                   ELSE IF node.kind = "FunctionDef" THEN
                       IF node_name = "FunctionDef"
                       THEN visit(c, node.body, node_name)
                       ELSE c
                   ELSE IF node.kind \in {"If", "While"} THEN
                       visit(visit(c, node.body, node_name), node.orelse, node_name)
                   ELSE c
         IN  visit(c1, Tail(nodes), node_name)

\* VariableCounter(tree).variables for a Module (its body) or a FunctionDef
VariableCounter(tree) ==
    IF tree.kind = "FunctionDef"
    THEN visit(Ok(<<>>), <<tree>>, "FunctionDef")
    ELSE visit(Ok(<<>>), tree.body, "Module")

(***************************************************************************)
(* translator.py: Translator.  The instance is a record self with the      *)
(* fields of __init__; functions is the OrderedDict as a sequence of       *)
(* [name, offset, opcodes].                                                *)
(***************************************************************************)
NewTranslator ==
    [globals |-> [x \in {} |-> 0], locals |-> [x \in {} |-> 0],
     arrays |-> [x \in {} |-> [offset |-> 0, size |-> 0]],
     opcodes |-> <<>>, functions |-> <<>>, funcs_len |-> FUNCTION_OFFSET_START]

DictPut(d, k, v) == [x \in DOMAIN d \cup {k} |-> IF x = k THEN v ELSE d[x]]

\* a routine that changes the translator: the exception raised, and the
\* translator as the routine leaves it
Done(self) == [err |-> "none", self |-> self]
Fail(e, self) == [err |-> e, self |-> self]

RECURSIVE SumSizes(_, _)
SumSizes(arrs, names) ==
    IF names = {} THEN 0
    ELSE LET x == CHOOSE y \in names : TRUE
         IN  arrs[x].size + SumSizes(arrs, names \ {x})

alloc_array(self, name, size) ==
    LET allocated == SumSizes(self.arrays, DOMAIN self.arrays)
    IN  IF allocated + size > MAX_ARRAY THEN Fail("TranslationFail", self)
        ELSE Done([self EXCEPT !.arrays =
                     DictPut(@, name, [offset |-> ARRAY_OFFSET + allocated, size |-> size])])

\* alloc_global that refuses an offset only beyond the end of the region
alloc_global_late(self, name) ==
    LET heap_offset == VARIABLE_OFFSET + Cardinality(DOMAIN self.globals)
    IN  IF heap_offset > VARIABLE_OFFSET + MAX_VARIABLES
        THEN Fail("TranslationFail", self)
        ELSE Done([self EXCEPT !.globals = DictPut(@, name, heap_offset)])

alloc_global(self, name) ==
    LET heap_offset == VARIABLE_OFFSET + Cardinality(DOMAIN self.globals)
    IN  IF heap_offset >= VARIABLE_OFFSET + MAX_VARIABLES
        THEN Fail("TranslationFail", self)
        ELSE Done([self EXCEPT !.globals = DictPut(@, name, heap_offset)])

\* alloc_local that counts the locals only, not the globals below them
alloc_local_nobase(self, name) ==
    LET heap_offset == VARIABLE_OFFSET + Cardinality(DOMAIN self.locals)
    IN  IF heap_offset >= VARIABLE_OFFSET + MAX_VARIABLES
        THEN Fail("TranslationFail", self)
        ELSE Done([self EXCEPT !.locals = DictPut(@, name, heap_offset)])

alloc_local(self, name) ==
    LET heap_offset == VARIABLE_OFFSET + Cardinality(DOMAIN self.globals)
                         + Cardinality(DOMAIN self.locals)
    IN  IF heap_offset >= VARIABLE_OFFSET + MAX_VARIABLES
        THEN Fail("TranslationFail", self)
        ELSE Done([self EXCEPT !.locals = DictPut(@, name, heap_offset)])

read_var(self, name) ==
    IF name \in DOMAIN self.locals
    THEN Cat(num(self.locals[name]), Ok(<<HEAP_READ>>))
    ELSE IF name \in DOMAIN self.globals
    THEN Cat(num(self.globals[name]), Ok(<<HEAP_READ>>))
    ELSE Raise("TranslationError")

write_var(self, name) ==
    IF name \in DOMAIN self.locals
    THEN Cat(num(self.locals[name]), Ok(<<HEAP_WRITE>>))
    ELSE IF name \in DOMAIN self.globals
    THEN Cat(num(self.globals[name]), Ok(<<HEAP_WRITE>>))
    ELSE Raise("TranslationError")

\* the function table
FuncHas(fs, name) == \E k \in 1..Len(fs) : fs[k].name = name
FuncIndex(fs, name) == CHOOSE k \in 1..Len(fs) : fs[k].name = name
FuncGet(fs, name) == fs[FuncIndex(fs, name)]

RECURSIVE Repeat(_, _)
Repeat(c, k) == IF k <= 0 THEN <<>> ELSE <<c>> \o Repeat(c, k - 1)

BuiltIns == {"putchar", "putint", "puts"}

\* ArithOp in which Div has no handler and no raise: nothing is emitted
ArithOp_nodiv(op_name) ==
    IF op_name = "Add" THEN Ok(<<STACK_ADD>>)
    ELSE IF op_name = "Sub" THEN Ok(<<STACK_SUBTRACT>>)
    ELSE IF op_name = "Mult" THEN Ok(<<STACK_MULTIPLY>>)
    ELSE IF op_name = "Div" THEN Ok(<<>>)
    ELSE Raise("TranslationUnknown")

\* the arithmetic opcode of a BinOp or an AugAssign
ArithOp(op_name) ==
    IF op_name = "Add" THEN Ok(<<STACK_ADD>>)
    ELSE IF op_name = "Sub" THEN Ok(<<STACK_SUBTRACT>>)
    ELSE IF op_name = "Mult" THEN Ok(<<STACK_MULTIPLY>>)
    ELSE IF op_name = "Div" THEN Ok(<<STACK_DIVIDE>>)
    ELSE Raise("TranslationUnknown")

\* CompareOp in which GtE adds 1 as LtE does
CompareOp_gte(op_name) ==
    IF op_name = "NotEq" THEN
        Ok(<<STACK_COMPARE, STACK_3, CONDITIONAL_JUMP, STACK_1, STACK_1, GO, STACK_0>>)
    ELSE IF op_name \in {"Eq", "Gt", "Lt"} THEN
        Ok((IF op_name = "Eq" THEN <<STACK_COMPARE>>
            ELSE IF op_name = "Gt" THEN <<STACK_COMPARE, STACK_1, STACK_SUBTRACT>>
            ELSE <<STACK_COMPARE, STACK_1, STACK_ADD>>)
           \o <<STACK_3, CONDITIONAL_JUMP, STACK_0, STACK_1, GO, STACK_1>>)
    ELSE IF op_name \in {"GtE", "LtE"} THEN
        Ok(<<STACK_COMPARE, STACK_0, STACK_FIND, STACK_1, STACK_ADD>>
           \o <<STACK_5, CONDITIONAL_JUMP, STACK_4, CONDITIONAL_JUMP, STACK_0,
                STACK_2, GO, STACK_DROP, STACK_1>>)
    ELSE Raise("TranslationUnknown")

\* the opcodes that turn the two operands of a Compare into 0 or 1
CompareOp(op_name) ==
    IF op_name = "NotEq" THEN
        Ok(<<STACK_COMPARE, STACK_3, CONDITIONAL_JUMP, STACK_1, STACK_1, GO, STACK_0>>)
    ELSE IF op_name \in {"Eq", "Gt", "Lt"} THEN
        Ok((IF op_name = "Eq" THEN <<STACK_COMPARE>>
            ELSE IF op_name = "Gt" THEN <<STACK_COMPARE, STACK_1, STACK_SUBTRACT>>
            ELSE <<STACK_COMPARE, STACK_1, STACK_ADD>>)
           \o <<STACK_3, CONDITIONAL_JUMP, STACK_0, STACK_1, GO, STACK_1>>)
    ELSE IF op_name \in {"GtE", "LtE"} THEN
        Ok((IF op_name = "GtE"
            THEN <<STACK_COMPARE, STACK_0, STACK_FIND, STACK_1, STACK_SUBTRACT>>
            ELSE <<STACK_COMPARE, STACK_0, STACK_FIND, STACK_1, STACK_ADD>>)
           \o <<STACK_5, CONDITIONAL_JUMP, STACK_4, CONDITIONAL_JUMP, STACK_0,
                STACK_2, GO, STACK_DROP, STACK_1>>)
    ELSE Raise("TranslationUnknown")

\* 1 to 7 of the While lowering, from the opcodes of its test and its body
WhileLoop(test, stmts) ==
    LET body == Cat(Ok(<<CONDITIONAL_JUMP>>), Cat(stmts, Ok(<<GO>>)))
        opcode_change ==
            Cat(body, Cat(Ok(<<STACK_0, STACK_FIND>>),
                Cat(test, Cat(num(Len(body.ops) - 1), body))))
    IN  IF ~IsOk(opcode_change) THEN opcode_change
        ELSE LET inner == SubSeq(opcode_change.ops, Len(body.ops) + 1,
                                 Len(opcode_change.ops))
             IN  Cat(num(0 - Len(inner)),
                     Ok(inner \o <<STACK_DROP, STACK_DROP>>))

\* IfElse in which the conditional jump is as long as the statements of the
\* body, without the jump over the orelse that is appended to them
IfElse_short(test, stmts, orelse) ==
    LET pre == Cat(test, Cat(stmts, orelse))
        body == Cat(stmts, Cat(num(Len(orelse.ops)), Ok(<<GO>>)))
    IN  IF ~IsOk(pre) THEN pre
        ELSE Cat(test, Cat(num(Len(stmts.ops)),
                 Cat(Ok(<<CONDITIONAL_JUMP>>), Cat(body, orelse))))

\* the If lowering from the opcodes of its test, its body and its orelse
IfElse(test, stmts, orelse) ==
    LET pre == Cat(test, Cat(stmts, orelse))
        body == Cat(stmts, Cat(num(Len(orelse.ops)), Ok(<<GO>>)))
    IN  IF ~IsOk(pre) THEN pre
        ELSE Cat(test, Cat(num(Len(body.ops)),
                 Cat(Ok(<<CONDITIONAL_JUMP>>), Cat(body, orelse))))

\* call_function without the check of the name: the target of a function
\* that is not in the table yet is taken to be the next free offset
call_function_unchecked(self, func_name, args) ==
    Cat(args,
        IF func_name \in BuiltIns THEN
            IF func_name = "putchar" THEN Ok(<<PRINT_ASCII>>)
            ELSE IF func_name = "putint" THEN Ok(<<PRINT_NUM>>)
            ELSE Ok(<<>>)
        ELSE IF FuncHas(self.functions, func_name)
        THEN Cat(num(FuncGet(self.functions, func_name).offset), Ok(<<CALL>>))
        ELSE Cat(num(self.funcs_len), Ok(<<CALL>>)))

\* the Call lowering for a callee named func_name, from the opcodes of the
\* arguments: the check of the name comes before the arguments
call_function(self, func_name, args) ==
    IF func_name \notin BuiltIns /\ ~FuncHas(self.functions, func_name)
    THEN Raise("TranslationError")
    ELSE Cat(args,
             IF func_name \in BuiltIns THEN
                 IF func_name = "putchar" THEN Ok(<<PRINT_ASCII>>)
                 ELSE IF func_name = "putint" THEN Ok(<<PRINT_NUM>>)
                 ELSE Ok(<<>>)
             ELSE Cat(num(FuncGet(self.functions, func_name).offset), Ok(<<CALL>>)))

RECURSIVE translate_node(_, _)
RECURSIVE translate_nodes(_, _)
RECURSIVE translate_list(_, _, _, _)

translate_nodes(self, nodes) ==
    IF nodes = <<>> THEN Ok(<<>>)
    ELSE Cat(translate_node(self, Head(nodes)), translate_nodes(self, Tail(nodes)))

\* the loop of "a = [1, 2, 3]" from element i (0-based) on
translate_list(self, elts, offset, i) ==
    IF i >= Len(elts) THEN Ok(<<>>)
    ELSE Cat(translate_node(self, elts[i + 1]),
             Cat(num(offset + i),
                 Cat(Ok(<<HEAP_WRITE>>), translate_list(self, elts, offset, i + 1))))

translate_node(self, node) ==
    LET node_name == node.kind
    IN  IF node_name = "Name" THEN read_var(self, node.id)
        ELSE IF node_name = "Num" THEN num(node.n)
        ELSE IF node_name = "Subscript" THEN
            IF node.value.id \notin DOMAIN self.arrays THEN Raise("KeyError")
            ELSE Cat(num(self.arrays[node.value.id].offset),
                     Cat(translate_node(self, node.index),
                         Cat(Ok(<<STACK_ADD>>),
                             IF node.ctx = "Store" THEN Ok(<<HEAP_WRITE>>)
                             ELSE IF node.ctx = "Load" THEN Ok(<<HEAP_READ>>)
                             ELSE Raise("TranslationUnknown"))))
        ELSE IF node_name = "BinOp" THEN
            Cat(translate_node(self, node.left),
                Cat(translate_node(self, node.right), ArithOp(node.op)))
        ELSE IF node_name = "BoolOp" THEN
            Cat(translate_nodes(self, node.values),
                IF node.op = "And"
                THEN Ok(Repeat(STACK_MULTIPLY, Len(node.values) - 1))
                ELSE IF node.op = "Or"
                THEN Ok(Repeat(STACK_ADD, Len(node.values) - 1))
                ELSE Raise("TranslationUnknown"))
        ELSE IF node_name = "Assign" THEN
            IF Len(node.targets) > 1 THEN Raise("TranslationUnknown")
            ELSE IF node.value.kind = "List" THEN
                IF ~HasId(node.targets[1]) THEN Raise("AttributeError")
                ELSE IF node.targets[1].id \notin DOMAIN self.arrays
                THEN Raise("TranslationFail")
                ELSE translate_list(self, node.value.elts,
                                    self.arrays[node.targets[1].id].offset, 0)
            ELSE IF node.targets[1].kind = "Subscript" THEN
                Cat(translate_node(self, node.value),
                    translate_node(self, node.targets[1]))
            ELSE Cat(translate_node(self, node.value),
                     IF HasId(node.targets[1])
                     THEN write_var(self, node.targets[1].id)
                     ELSE Raise("AttributeError"))
        ELSE IF node_name = "AugAssign" THEN
            IF ~HasId(node.target) THEN Raise("AttributeError")
            ELSE Cat(read_var(self, node.target.id),
                     Cat(translate_node(self, node.value),
                         Cat(ArithOp(node.op), write_var(self, node.target.id))))
        ELSE IF node_name = "If" THEN
            IfElse(translate_node(self, node.test),
                   translate_nodes(self, node.body),
                   translate_nodes(self, node.orelse))
        ELSE IF node_name = "Compare" THEN
            Cat(translate_node(self, node.left),
                IF Len(node.comparators) > 1 THEN Raise("TranslationUnknown")
                ELSE Cat(translate_node(self, node.comparators[1]),
                         IF Len(node.ops) > 1 THEN Raise("TranslationUnknown")
                         ELSE CompareOp(node.ops[1])))
        ELSE IF node_name = "Call" THEN
            IF node.func.kind # "Name" THEN Raise("TranslationUnknown")
            ELSE call_function(self, node.func.id, translate_nodes(self, node.args))
        ELSE IF node_name = "While" THEN
            IF node.orelse # <<>> THEN Raise("TranslationUnknown")
            ELSE WhileLoop(translate_node(self, node.test),
                           translate_nodes(self, node.body))
        ELSE IF node_name = "Expr" THEN translate_node(self, node.value)
        ELSE IF node_name = "Return" THEN translate_node(self, node.value)
        ELSE Raise("TranslationUnknown")

\* self.functions[func_name] = {"offset": ...}: a new key goes last, an
\* existing key keeps its place and gets the new value
FuncSet(fs, name, offset) ==
    LET entry == [name |-> name, offset |-> offset, opcodes |-> <<>>]
    IN  IF FuncHas(fs, name) THEN [fs EXCEPT ![FuncIndex(fs, name)] = entry]
        ELSE Append(fs, entry)

\* alloc_local for each argument, in declaration order
RECURSIVE alloc_args(_, _)
alloc_args(self, args) ==
    IF args = <<>> THEN Done(self)
    ELSE LET a == alloc_local(self, Head(args))
         IN  IF a.err # "none" THEN a ELSE alloc_args(a.self, Tail(args))

\* the transfer of the arguments from the stack to the heap: args[::-1]
RECURSIVE transfer_args(_, _)

\* transfer_args that leaves the loop after its first turn
transfer_args_once(self, args) ==
    IF args = <<>> THEN Ok(<<>>)
    ELSE Cat(num(self.locals[args[Len(args)]]), Ok(<<HEAP_WRITE>>))

transfer_args(self, args) ==
    IF args = <<>> THEN Ok(<<>>)
    ELSE Cat(Cat(num(self.locals[args[Len(args)]]), Ok(<<HEAP_WRITE>>)),
             transfer_args(self, SubSeq(args, 1, Len(args) - 1)))

InSeq(x, s) == \E k \in 1..Len(s) : s[k] = x

\* the loop over counter.variables of translate_function
RECURSIVE alloc_locals(_, _, _)
alloc_locals(self, variables, args) ==
    IF variables = <<>> THEN Done(self)
    ELSE LET v == Head(variables)
         IN  IF InSeq(v.name, args) THEN alloc_locals(self, Tail(variables), args)
             ELSE IF v.size > 1 THEN Fail("TranslationUnknown", self)
             ELSE LET a == alloc_local(self, v.name)
                  IN  IF a.err # "none" THEN a
                      ELSE alloc_locals(a.self, Tail(variables), args)

translate_function(self, node) ==
    LET func_name == node.name
        s0 == [self EXCEPT !.functions = FuncSet(@, func_name, self.funcs_len)]
        a1 == alloc_args(s0, node.args)
        counter == VariableCounter(node)
        a2 == alloc_locals(a1.self, counter.ops, node.args)
        opcodes == Cat(transfer_args(a1.self, node.args),
                       Cat(translate_nodes(a2.self, node.body), Ok(<<RETURN>>)))
    IN  IF a1.err # "none" THEN a1
        ELSE IF ~IsOk(counter) THEN Fail(counter.err, a1.self)
        ELSE IF a2.err # "none" THEN a2
        ELSE IF ~IsOk(opcodes) THEN Fail(opcodes.err, a2.self)
        ELSE Done([a2.self EXCEPT
                     !.locals = [x \in {} |-> 0],
                     !.functions[FuncIndex(a2.self.functions, func_name)].opcodes =
                         opcodes.ops,
                     !.funcs_len = @ + Len(opcodes.ops)])

RECURSIVE SumLen(_)
SumLen(fs) == IF fs = <<>> THEN 0 ELSE Len(Head(fs).opcodes) + SumLen(Tail(fs))

RECURSIVE ConcatFuncs(_)
ConcatFuncs(fs) == IF fs = <<>> THEN <<>> ELSE Head(fs).opcodes \o ConcatFuncs(Tail(fs))

\* str.ljust(width, fill)
ljust(s, width, fill) == s \o Repeat(fill, width - Len(s))

\* jump_functions without the check of the length
jump_functions_unchecked(total_func_length) ==
    LET lit == num(total_func_length)
    IN  IF ~IsOk(lit) THEN lit
        ELSE Ok(ljust(lit.ops, FUNCTION_OFFSET_START - 1, NOP) \o <<GO>>)

\* the jump over the function block
jump_functions(total_func_length) ==
    LET lit == num(total_func_length)
        jmp == ljust(lit.ops, FUNCTION_OFFSET_START - 1, NOP) \o <<GO>>
    IN  IF ~IsOk(lit) THEN lit
        ELSE IF Len(jmp) > FUNCTION_OFFSET_START THEN Raise("TranslationFail")
        ELSE Ok(jmp)

(***************************************************************************)
(* The inputs of the model: source programs, as the body of their Module.  *)
(***************************************************************************)
CallStmt(name, args) == Expr(Call(Name(name), args))
Store(id, value) == Assign(<<Name(id)>>, value)
Lt(left, right) == Compare(left, <<"Lt">>, <<right>>)

\* i = 0; while i < k: putint(i); i += 1
ProgCount(k) ==
    << Store("i", Num(0)),
       While(Lt(Name("i"), Num(k)),
             << CallStmt("putint", <<Name("i")>>),
                AugAssign(Name("i"), "Add", Num(1)) >>, <<>>) >>

\* def add(a, b): c = a + b; return c
DefAdd ==
    FunctionDef("add", <<"a", "b">>,
        << Store("c", BinOp(Name("a"), "Add", Name("b"))), Return(Name("c")) >>)

\* a function of k statements "1" (and the RETURN): k + 1 opcodes
DefFill(name, k) == FunctionDef(name, <<>>, [j \in 1..k |-> Expr(Num(1))])

\* def f(): g() -- the call of g from the body of f
DefCaller(name, callee) == FunctionDef(name, <<>>, <<CallStmt(callee, <<>>)>>)

\* def show(n): putint(n)
DefShow == FunctionDef("show", <<"n">>, <<CallStmt("putint", <<Name("n")>>)>>)

WhilePrograms ==
    { ProgCount(k) : k \in 0..MaxLoop }
    \cup { <<While(Num(0), <<CallStmt("puts", <<>>)>>, <<>>)>>,
           <<While(Num(0), <<Expr(Num(1))>>, <<>>)>> }

FuncPrograms ==
    { <<DefAdd, CallStmt("add", <<Num(2), Num(3)>>)>>,
      <<DefShow, DefCaller("f", "g"), DefFill("g", 1), CallStmt("f", <<>>)>>,
      <<DefFill("g", 1), DefCaller("f", "g"), CallStmt("f", <<>>)>>,
      <<DefCaller("f", "g"), CallStmt("f", <<>>)>>,
      <<DefFill("f", 1), DefFill("g", 2), DefFill("f", 3),
        CallStmt("f", <<>>), CallStmt("g", <<>>)>>,
      <<DefFill("f", 2), DefFill("f", 1), CallStmt("f", <<>>)>>,
      <<Store("x", Num(4)), DefShow, DefAdd,
        CallStmt("show", <<Call(Name("add"), <<Name("x"), Num(3)>>)>>)>> }

\* def g(): n1; n2; ... -- a function of literal statements
DefLit(name, ns) == FunctionDef(name, <<>>, [j \in 1..Len(ns) |-> Expr(Num(ns[j]))])

\* a function of up to MaxFill statements, possibly a second function,
\* then a statement; and programs without a function
FillPrograms ==
    { <<DefFill("f", k)>> \o g \o <<CallStmt("putint", <<Num(k)>>)>> :
        k \in 1..MaxFill,
        g \in { <<>>, <<DefLit("g", <<1>>)>>, <<DefLit("g", <<9973, 47>>)>> } }
    \cup { <<CallStmt("putint", <<Num(k)>>)>> : k \in 1..2 }

Show(n) == CallStmt("putint", <<Num(n)>>)

IfTests ==
    { Num(n) : n \in 0..2 } \cup { Lt(Num(a), Num(b)) : a, b \in 0..1 }

IfBodies == { <<Show(1)>>, <<Show(1), Show(1)>> }

IfElses == { <<>>, <<Show(2)>>, <<Show(2), Store("x", Num(1))>> }

\* if test: body else: orelse; putint(3)
IfPrograms ==
    { <<If(t, b, e), Show(3)>> : t \in IfTests, b \in IfBodies, e \in IfElses }

\* the value of a test of IfTests
TestValue(test) ==
    IF test.kind = "Num" THEN test.n
    ELSE IF test.left.n < test.comparators[1].n THEN 1 ELSE 0

ArithOps == {"Add", "Sub", "Mult", "Div"}
CompareOps == {"Eq", "NotEq", "Lt", "Gt", "LtE", "GtE"}

Values == { Num(7), Num(23), Name("x"), Subscript("a", Num(1), "Load") }

\* the expressions that push a value
ValueExprs ==
    Values
    \cup { Subscript("a", Name("x"), "Load") }
    \cup { BinOp(l, op, Name("x")) : l \in Values, op \in ArithOps }
    \cup { BinOp(BinOp(Num(7), op, Num(2)), op, Num(3)) : op \in ArithOps }
    \cup { BoolOp(op, <<Num(1), Num(0)>>) : op \in {"And", "Or"} }
    \cup { BoolOp(op, <<Num(1), Name("x"), Lt(Num(1), Num(2))>>) : op \in {"And", "Or"} }
    \cup { Compare(Name("x"), <<op>>, <<r>>) : op \in CompareOps, r \in Values }
    \cup { Call(Name("puts"), <<Num(5)>>),
           Call(Name("add"), <<Num(2), Name("x")>>) }

\* the calls that consume their argument
PrintExprs ==
    { Call(Name(f), <<v>>) : f \in {"putchar", "putint"}, v \in Values }
    \cup { Call(Name("show"), <<Num(5)>>) }

\* def add, def show; x = 2; a = [3, 1, 4]; then the expression
ExprSetup ==
    << DefAdd, DefShow, Store("x", Num(2)),
       Store("a", List(<<Num(3), Num(1), Num(4)>>)) >>

ExprPrograms == { Append(ExprSetup, Expr(e)) : e \in ValueExprs \cup PrintExprs }

Statements ==
    { Store("x", Num(5)), Store("x", BinOp(Name("x"), "Add", Num(1))),
      Store("a", List(<<Num(1), Num(2), Name("x")>>)),
      Assign(<<Subscript("a", Num(1), "Store")>>, Num(9)),
      Assign(<<Subscript("a", Name("x"), "Store")>>, Name("x")),
      If(Num(0), <<Show(1)>>, <<Show(2)>>), If(Num(1), <<Show(1)>>, <<>>),
      If(Lt(Name("x"), Num(3)), <<Store("x", Num(1))>>, <<Show(2)>>),
      While(Num(0), <<Show(1)>>, <<>>),
      While(Lt(Name("x"), Num(3)), <<AugAssign(Name("x"), "Add", Num(1))>>, <<>>),
      Expr(Num(1)), Show(1), CallStmt("add", <<Num(1), Num(2)>>),
      Return(Num(1)), Return(Name("x")) }
    \cup { AugAssign(Name("x"), op, Num(3)) : op \in ArithOps }

StmtPrograms == { Append(ExprSetup, st) : st \in Statements }

\* the list literal [1, 2, ..., n]
ListOf(n) == List([j \in 1..n |-> Num(j)])

\* (b = [7, 8];) a = [1, ..., n]; putint(a[0])
ArrayPrograms ==
    { pre \o << Store("a", ListOf(n)),
                CallStmt("putint", <<Subscript("a", Num(0), "Load")>>) >> :
        n \in 0..MaxElts,
        pre \in { <<>>, <<Store("b", List(<<Num(7), Num(8)>>))>> } }

\* (a = [7, 8];) def f(args): a = [1, ..., n]; f(...); putint(a[0])
FuncArrayPrograms ==
    { pre \o << FunctionDef("f", args, <<Store("a", ListOf(n))>>),
                CallStmt("f", [j \in 1..Len(args) |-> Num(3)]),
                CallStmt("putint", <<Subscript("a", Num(0), "Load")>>) >> :
        n \in 0..MaxElts,
        pre \in { <<>>, <<Store("a", List(<<Num(7), Num(8)>>))>> },
        args \in { <<>>, <<"a">> } }

\* the bodies of a function f(x) with a return
ReturnBodies ==
    { << Return(Num(1)), Show(7) >>,
      << Show(7), Return(Num(1)) >>,
      << If(Name("x"), <<Return(Num(1))>>, <<>>), Show(7), Return(Num(2)) >>,
      << If(Name("x"), <<Return(Num(1))>>, <<Return(Num(2))>>) >>,
      << If(Name("x"), <<Show(7)>>, <<Return(Num(2))>>), Store("y", Num(3)),
         Return(Name("y")) >> }

\* def f(x): body; f(v)
ReturnPrograms ==
    { << FunctionDef("f", <<"x">>, body), CallStmt("f", <<Num(v)>>) >> :
        body \in ReturnBodies, v \in 0..1 }

\* the callees g: without a variable, with a parameter, with a local
CalleeDefs ==
    { FunctionDef("g", <<>>, <<Show(1)>>),
      FunctionDef("g", <<"n">>, <<Show(1)>>),
      FunctionDef("g", <<>>, <<Store("m", Num(8))>>) }

\* (x = 2;) def g ...; def f(a): g(...); putint(a); f(5)
FramePrograms ==
    { pre \o << g,
                FunctionDef("f", <<"a">>,
                    << CallStmt("g", [j \in 1..Len(g.args) |-> Num(9)]),
                       CallStmt("putint", <<Name("a")>>) >>),
                CallStmt("f", <<Num(5)>>) >> :
        pre \in { <<>>, <<Store("x", Num(2))>> }, g \in CalleeDefs }

\* the statements translate has no lowering for
BadStatements ==
    { Pass, ImportFrom("os"), Expr(Attribute("y")),
      Store("x", BinOp(Num(1), "Add", Attribute("y"))),
      Assign(<<Name("x"), Name("z")>>, Num(1)),
      Assign(<<Attribute("y"), Name("z")>>, Num(1)),
      Assign(<<Attribute("y")>>, Num(1)),
      Expr(Compare(Num(1), <<"Lt", "Lt">>, <<Num(2), Num(3)>>)),
      While(Num(0), <<Show(1)>>, <<Show(2)>>),
      Expr(Call(Attribute("f"), <<>>)),
      CallStmt("h", <<>>), CallStmt("putint", <<Name("u")>>) }

\* putint(1); then the statement, or an if or a function around it, with
\* or without a call of the function; putint(2)
BadPrograms ==
    { <<Show(1)>> \o p \o <<Show(2)>> :
        p \in UNION { { <<st>>, <<If(Num(1), <<Show(3), st>>, <<>>)>>,
                        <<If(Num(0), <<Show(3)>>, <<st>>)>>,
                        <<FunctionDef("f", <<>>, <<Show(3), st>>)>>,
                        <<ImportFrom("stubs"), FunctionDef("f", <<>>, <<st>>),
                          CallStmt("f", <<>>)>> } : st \in BadStatements } }

Programs ==
    { [family |-> "while", tree |-> p] : p \in WhilePrograms }
    \cup { [family |-> "bad", tree |-> p] : p \in BadPrograms }
    \cup { [family |-> "frame", tree |-> p] : p \in FramePrograms }
    \cup { [family |-> "return", tree |-> p] : p \in ReturnPrograms }
    \cup { [family |-> "farray", tree |-> p] : p \in FuncArrayPrograms }
    \cup { [family |-> "array", tree |-> p] : p \in ArrayPrograms }
    \cup { [family |-> "funcs", tree |-> p] : p \in FuncPrograms }
    \cup { [family |-> "fill", tree |-> p] : p \in FillPrograms }
    \cup { [family |-> "if", tree |-> p] : p \in IfPrograms }
    \cup { [family |-> "expr", tree |-> p] : p \in ExprPrograms }
    \cup { [family |-> "stmt", tree |-> p] : p \in StmtPrograms }

(***************************************************************************)
(* Translator.translate, step by step, and the run of its result           *)
(***************************************************************************)
VARIABLES input, pc, self, counter, idx, err, vm

vars == <<input, pc, self, counter, idx, err, vm>>

trvars == <<pc, self, counter, idx, err>>

NoError == [type |-> "none", at |-> "none"]

Init ==
    /\ input \in Programs
    /\ pc = "identify"
    /\ self = NewTranslator
    /\ counter = <<>>
    /\ idx = 1
    /\ err = NoError
    /\ vm = IdleVM

\* counter = VariableCounter(tree)
IdentifyGlobals ==
    /\ pc = "identify"
    /\ LET c == VariableCounter([kind |-> "Module", body |-> input.tree])
       IN  IF IsOk(c)
           THEN /\ counter' = c.ops
                /\ pc' = IF c.ops = <<>> THEN "functions" ELSE "globals"
                /\ err' = err
           ELSE /\ counter' = counter
                /\ pc' = "failed"
                /\ err' = [type |-> c.err, at |-> pc]
    /\ UNCHANGED <<input, self, idx, vm>>

\* one turn of the loop over counter.variables.items()
AllocGlobal ==
    /\ pc = "globals"
    /\ counter # <<>>
    /\ LET v == Head(counter)
           a == IF v.size = 1 THEN alloc_global(self, v.name)
                ELSE alloc_array(self, v.name, v.size)
       IN  /\ self' = a.self
           /\ IF a.err = "none"
              THEN /\ counter' = Tail(counter)
                   /\ pc' = IF Tail(counter) = <<>> THEN "functions" ELSE "globals"
                   /\ err' = err
              ELSE /\ counter' = counter
                   /\ pc' = "failed"
                   /\ err' = [type |-> a.err, at |-> pc]
    /\ UNCHANGED <<input, idx, vm>>

\* one turn of the loop that looks for functions
TranslateFunction ==
    /\ pc = "functions"
    /\ idx <= Len(input.tree)
    /\ LET node == input.tree[idx]
           a == IF node.kind = "FunctionDef" THEN translate_function(self, node)
                ELSE Done(self)
       IN  /\ self' = a.self
           /\ IF a.err = "none"
              THEN /\ idx' = idx + 1
                   /\ pc' = pc
                   /\ err' = err
              ELSE /\ idx' = idx
                   /\ pc' = "failed"
                   /\ err' = [type |-> a.err, at |-> pc]
    /\ UNCHANGED <<input, counter, vm>>

\* the jump over the functions, then the functions
ConcatFunctions ==
    /\ pc = "functions"
    /\ idx > Len(input.tree)
    /\ LET jmp == IF Len(self.functions) # 0
                  THEN jump_functions(SumLen(self.functions))
                  ELSE Ok(<<>>)
       IN  IF IsOk(jmp)
           THEN /\ self' = [self EXCEPT !.opcodes =
                              @ \o jmp.ops \o ConcatFuncs(self.functions)]
                /\ pc' = "main"
                /\ idx' = 1
                /\ err' = err
           ELSE /\ self' = self
                /\ pc' = "failed"
                /\ idx' = idx
                /\ err' = [type |-> jmp.err, at |-> "concat"]
    /\ UNCHANGED <<input, counter, vm>>

\* one turn of the loop over the top-level statements
TranslateStatement ==
    /\ pc = "main"
    /\ idx <= Len(input.tree)
    /\ LET node == input.tree[idx]
           skip == IF node.kind = "ImportFrom" THEN node.module = "stubs"
                   ELSE node.kind = "FunctionDef"
           r == IF skip THEN Ok(<<>>) ELSE translate_node(self, node)
       IN  IF IsOk(r)
           THEN /\ self' = [self EXCEPT !.opcodes = @ \o r.ops]
                /\ idx' = idx + 1
                /\ pc' = pc
                /\ err' = err
           ELSE /\ self' = self
                /\ idx' = idx
                /\ pc' = "failed"
                /\ err' = [type |-> r.err, at |-> pc]
    /\ UNCHANGED <<input, counter, vm>>

\* return self.opcodes: the string is handed to the machine
ReturnOpcodes ==
    /\ pc = "main"
    /\ idx > Len(input.tree)
    /\ pc' = "done"
    /\ vm' = LoadVM(self.opcodes, <<>>, EmptyHeap)
    /\ UNCHANGED <<input, self, counter, idx, err>>

\* one instruction of the machine
VMStep ==
    /\ vm.status = "run"
    /\ vm.steps < MaxSteps
    /\ vm' = StepVM(vm)
    /\ UNCHANGED <<input, trvars>>

Next ==
    \/ IdentifyGlobals
    \/ AllocGlobal
    \/ TranslateFunction
    \/ ConcatFunctions
    \/ TranslateStatement
    \/ ReturnOpcodes
    \/ VMStep

Spec == Init /\ [][Next]_vars

(***************************************************************************)
(* The Compare lowering on its own: "x op y" for two globals x and y that  *)
(* hold a and b, run on a stack that holds base.                           *)
(***************************************************************************)
CompareEnv == alloc_global(alloc_global(NewTranslator, "x").self, "y").self

CompareHeap(a, b) == (CompareEnv.globals["x"] :> a) @@ (CompareEnv.globals["y"] :> b)

InitCompare ==
    /\ input \in [family : {"compare"}, op : CompareOps,
                  a : (0 - MaxOperand)..MaxOperand, b : (0 - MaxOperand)..MaxOperand,
                  base : {<<>>, <<7>>}]
    /\ pc = "compare"
    /\ self = CompareEnv
    /\ counter = <<>>
    /\ idx = 1
    /\ err = NoError
    /\ vm = IdleVM

LowerCompare ==
    /\ pc = "compare"
    /\ vm.status = "idle"
    /\ LET r == translate_node(self, Compare(Name("x"), <<input.op>>, <<Name("y")>>))
       IN  /\ IsOk(r)
           /\ vm' = LoadVM(r.ops, input.base, CompareHeap(input.a, input.b))
    /\ UNCHANGED <<input, trvars>>

NextCompare == LowerCompare \/ VMStep

SpecCompare == InitCompare /\ [][NextCompare]_vars

(***************************************************************************)
(* The numeric encoder on its own: encode n, run the string on an empty    *)
(* stack.                                                                  *)
(***************************************************************************)
InitNum ==
    /\ input \in [family : {"num"}, n : 0..MaxNum]
    /\ pc = "num"
    /\ self = NewTranslator
    /\ counter = <<>>
    /\ idx = 1
    /\ err = NoError
    /\ vm = IdleVM

EncodeNum ==
    /\ pc = "num"
    /\ vm.status = "idle"
    /\ IsOk(num(input.n))
    /\ vm' = LoadVM(num(input.n).ops, <<>>, EmptyHeap)
    /\ UNCHANGED <<input, trvars>>

NextNum == EncodeNum \/ VMStep

SpecNum == InitNum /\ [][NextNum]_vars

\* C1: running num(n) on an empty stack never fails and ends with exactly
\* the value n on the stack, for every n of the range; the string has digit
\* pushes, additions and multiplications only
NumEncoderCorrect ==
    (pc = "num" /\ vm.status # "idle") =>
        /\ vm.status # "error"
        /\ vm.steps < MaxSteps
        /\ (vm.ip >= Len(vm.code) => vm.stack = <<input.n>>)
        /\ \A k \in 1..Len(vm.code) :
              vm.code[k] \in (STACK_0..STACK_9) \cup {STACK_ADD, STACK_MULTIPLY}

NumEncoded ==
    pc = "num" /\ input.n > 18 /\ vm.status = "halt" /\ vm.steps > 3

(***************************************************************************)
(* Properties of the translation and of the run of its result              *)
(***************************************************************************)
Translated == pc = "done"

Stopped == vm.status \in {"halt", "error"}

\* C2: every character of a string that translate returns is an opcode
OpcodeAlphabetClosure ==
    Translated => \A k \in 1..Len(self.opcodes) : self.opcodes[k] \in Alphabet

\* the digits 0, 1, ..., k - 1 as putint prints them
Counted(k) == [j \in 1..k |-> 48 + (j - 1)]

\* C3: the loop "i = 0; while i < k: putint(i); i += 1" runs its body k
\* times, printing 0 .. k-1, then goes on after the loop and ends
WhileRunsBodyKTimes ==
    \A k \in 0..MaxLoop :
        (input.tree = ProgCount(k) /\ Translated /\ Stopped) =>
            /\ vm.status = "halt"
            /\ vm.out = Counted(k)
            /\ vm.stack = <<>>

\* C4: the offset of every function of the table is FUNCTION_OFFSET_START
\* plus the lengths of the functions before it in the table
OffsetConsistency ==
    pc \in {"functions", "main", "done"} =>
        \A k \in 1..Len(self.functions) :
            self.functions[k].offset =
                FUNCTION_OFFSET_START + SumLen(SubSeq(self.functions, 1, k - 1))

\* the names called in a statement or an expression
RECURSIVE Callees(_)
RECURSIVE CalleesOf(_)
CalleesOf(nodes) ==
    IF nodes = <<>> THEN {} ELSE Callees(Head(nodes)) \cup CalleesOf(Tail(nodes))

Callees(node) ==
    IF node.kind = "Call" THEN
        (IF node.func.kind = "Name" THEN {node.func.id} ELSE {}) \cup CalleesOf(node.args)
    ELSE IF node.kind \in {"Expr", "Return"} THEN Callees(node.value)
    ELSE IF node.kind = "Assign" THEN Callees(node.value)
    ELSE IF node.kind = "AugAssign" THEN Callees(node.value)
    ELSE IF node.kind \in {"If", "While"} THEN
        Callees(node.test) \cup CalleesOf(node.body) \cup CalleesOf(node.orelse)
    ELSE IF node.kind = "BinOp" THEN Callees(node.left) \cup Callees(node.right)
    ELSE IF node.kind = "BoolOp" THEN CalleesOf(node.values)
    ELSE IF node.kind = "Compare" THEN Callees(node.left) \cup CalleesOf(node.comparators)
    ELSE IF node.kind = "Subscript" THEN Callees(node.index)
    ELSE IF node.kind = "List" THEN CalleesOf(node.elts)
    ELSE {}

\* the functions defined by the statements i..j of the program
DefinedIn(tree, i, j) ==
    { tree[k].name : k \in { m \in i..j : tree[m].kind = "FunctionDef" } }

\* statement i of the program is a function whose body calls a function
\* that is defined only later in the source
ForwardCallAt(tree, i) ==
    /\ tree[i].kind = "FunctionDef"
    /\ \E g \in CalleesOf(tree[i].body) :
          /\ g \in DefinedIn(tree, i + 1, Len(tree))
          /\ g \notin DefinedIn(tree, 1, i)

\* C5 as claimed: a program in which a function calls a function defined
\* later compiles
ForwardCallCompiles ==
    (\E i \in 1..Len(input.tree) : ForwardCallAt(input.tree, i)) => pc # "failed"

\* C5 as amended: the translation never gets past a function that calls a
\* function defined only later, it aborts there with TranslationError; the
\* call of a function that has its entry in the table compiles to the
\* arguments, the literal of the offset of the entry, and CALL
CallNeedsTableEntry ==
    /\ \A i \in 1..Len(input.tree) :
          ForwardCallAt(input.tree, i) =>
              /\ (pc = "functions" => idx <= i)
              /\ pc \notin {"main", "done"}
              /\ (pc = "failed" => (err.at = "functions" /\ idx <= i))
              /\ ((pc = "failed" /\ idx = i) => err.type = "TranslationError")
    /\ pc \in {"functions", "main", "done"} =>
          \A k \in 1..Len(self.functions) :
              translate_node(self, Call(Name(self.functions[k].name), <<Num(7)>>))
                  = Ok(<<STACK_7>> \o num(self.functions[k].offset).ops \o <<CALL>>)

\* a forward call has aborted the translation, and in another run a call of
\* an earlier function has been compiled and has run
ForwardCallAborted ==
    /\ pc = "failed"
    /\ ForwardCallAt(input.tree, idx)
    /\ err.type = "TranslationError"
    /\ Len(self.functions) >= 2

\* C6: a program made of supported statements leaves the stack as it was
StatementsStackNeutral ==
    (input.family = "stmt" /\ Translated /\ Stopped) =>
        /\ vm.status = "halt"
        /\ vm.stack = <<>>

\* the expression of a program of ExprPrograms
TheExpr == input.tree[Len(input.tree)].value

\* C7 as claimed: every supported expression leaves one more value
ExpressionGainsOne ==
    (input.family = "expr" /\ Translated /\ Stopped) =>
        /\ vm.status = "halt"
        /\ Len(vm.stack) = 1

\* the function called name ends with a Return
EndsWithReturn(tree, name) ==
    \E k \in 1..Len(tree) :
        /\ tree[k].kind = "FunctionDef"
        /\ tree[k].name = name
        /\ tree[k].body[Len(tree[k].body)].kind = "Return"

\* what an expression of ExprPrograms adds to the stack
Gain(tree, e) ==
    IF e.kind # "Call" THEN 1
    ELSE IF e.func.id \in {"putchar", "putint"} THEN 0
    ELSE IF e.func.id = "puts" THEN 1
    ELSE IF EndsWithReturn(tree, e.func.id) THEN 1 ELSE 0

\* C7 as amended: Name, Num, Subscript (Load), BinOp, BoolOp and Compare
\* over such operands, puts(v) and the call of a function that returns a
\* value leave one more value; putchar(v), putint(v) and the call of a
\* function without Return leave the depth as it was
ExpressionGain ==
    input.family = "expr" =>
        /\ pc # "failed"
        /\ ((Translated /\ vm.status # "idle") =>
              /\ vm.status # "error"
              /\ vm.steps < MaxSteps
              /\ (vm.status = "halt" => Len(vm.stack) = Gain(input.tree, TheExpr)))

ExpressionRun ==
    /\ input.family = "expr"
    /\ vm.status = "halt"
    /\ TheExpr.kind = "BinOp"
    /\ TheExpr.op = "Div"
    /\ TheExpr.left = Num(23)
    /\ vm.stack = <<11>>

\* whether a op b
Holds(op, a, b) ==
    IF op = "Eq" THEN a = b
    ELSE IF op = "NotEq" THEN a # b
    ELSE IF op = "Lt" THEN a < b
    ELSE IF op = "Gt" THEN a > b
    ELSE IF op = "LtE" THEN a <= b
    ELSE a >= b

\* C8: the Compare lowering takes its two operands and leaves 1 if the
\* relation holds and 0 if not, on top of what the stack held before
CompareLeavesBoolean ==
    (pc = "compare" /\ vm.status # "idle") =>
        /\ vm.status # "error"
        /\ vm.steps < MaxSteps
        /\ SubSeq(vm.stack, 1, Len(input.base)) = input.base
        /\ (vm.ip >= Len(vm.code) =>
              vm.stack = Append(input.base,
                                IF Holds(input.op, input.a, input.b) THEN 1 ELSE 0))

CompareRun ==
    /\ pc = "compare"
    /\ vm.status = "halt"
    /\ input.op = "GtE"
    /\ input.a = 0 - 1
    /\ input.b = 0 - 2
    /\ vm.stack = <<7, 1>>

\* the places of the If lowering of a program of IfPrograms in the output:
\* the opcodes of the body, of the orelse, and what follows the lowering
IfLayout ==
    LET node == input.tree[1]
        t == translate_node(self, node.test).ops
        b == translate_nodes(self, node.body).ops
        e == translate_nodes(self, node.orelse).ops
        jump_len == Len(b) + Len(num(Len(e)).ops) + 1
        body_at == Len(t) + Len(num(jump_len).ops) + 1
        else_at == body_at + jump_len
        after == else_at + Len(e)
    IN  [body |-> body_at..(body_at + Len(b) - 1),
         orelse |-> else_at..(after - 1),
         after |-> after,
         test |-> TestValue(node.test)]

\* C9: when the test is 0 no opcode of the body runs and the orelse runs,
\* when it is not 0 the body runs and no opcode of the orelse runs; either
\* way the run goes on with the opcode after the If
IfRunsOneBranch ==
    (input.family = "if" /\ Translated) =>
        LET l == IfLayout
        IN  /\ vm.status # "error"
            /\ vm.steps < MaxSteps
            /\ (l.test = 0 => vm.seen \cap l.body = {})
            /\ (l.test # 0 => vm.seen \cap l.orelse = {})
            /\ (vm.status = "halt" =>
                  /\ (l.test = 0 => l.orelse \subseteq vm.seen)
                  /\ (l.test # 0 => l.body \subseteq vm.seen)
                  /\ l.after \in vm.seen
                  /\ vm.stack = <<>>)

IfElseRun ==
    /\ input.family = "if"
    /\ vm.status = "halt"
    /\ input.tree[1].test = Num(0)
    /\ Len(input.tree[1].orelse) = 2
    /\ vm.out = <<50, 51>>

\* C10: with a function in the table the output starts with the literal of
\* the total length of the functions, padded with NOP, and GO at the 10th
\* place; the translation fails with TranslationFail and no output if the
\* literal is longer than 9; without a function the output starts with the
\* first statement
PrologueShape ==
    LET total == SumLen(self.functions)
        lit == num(total).ops
        out == self.opcodes
    IN  /\ (pc \in {"main", "done"} /\ Len(self.functions) > 0) =>
              /\ Len(lit) <= FUNCTION_OFFSET_START - 1
              /\ Len(out) >= FUNCTION_OFFSET_START + total
              /\ SubSeq(out, 1, Len(lit)) = lit
              /\ \A k \in (Len(lit) + 1)..(FUNCTION_OFFSET_START - 1) : out[k] = NOP
              /\ out[FUNCTION_OFFSET_START] = GO
              /\ SubSeq(out, FUNCTION_OFFSET_START + 1, FUNCTION_OFFSET_START + total)
                    = ConcatFuncs(self.functions)
        /\ (pc = "failed" /\ err.at = "concat") =>
              /\ err.type = "TranslationFail"
              /\ Len(self.functions) > 0
              /\ Len(lit) > FUNCTION_OFFSET_START - 1
              /\ out = <<>>
        /\ (pc \in {"main", "done"} /\ Len(self.functions) = 0) =>
              /\ (idx = 1 => out = <<>>)
              /\ (idx > 1 =>
                    LET first == translate_node(self, input.tree[1]).ops
                    IN  SubSeq(out, 1, Len(first)) = first)
        /\ (Translated /\ Len(self.functions) > 0 /\ vm.steps = FUNCTION_OFFSET_START) =>
              vm.ip = FUNCTION_OFFSET_START + total

PrologueTooLong ==
    /\ pc = "failed"
    /\ err = [type |-> "TranslationFail", at |-> "concat"]
    /\ Len(self.functions) = 2

(***************************************************************************)
(* Arrays                                                                  *)
(***************************************************************************)
\* a top-level "name = [ ... ]"
IsListAssign(node) ==
    /\ node.kind = "Assign"
    /\ Len(node.targets) = 1
    /\ node.targets[1].kind = "Name"
    /\ node.value.kind = "List"

\* the writes of the literals ns to the cells from offset on
RECURSIVE ElementWrites(_, _)
ElementWrites(ns, offset) ==
    IF ns = <<>> THEN <<>>
    ELSE num(Head(ns).n).ops \o num(offset).ops \o <<HEAP_WRITE>>
         \o ElementWrites(Tail(ns), offset + 1)

\* C11: every top-level assignment of a list literal of n elements, n = 1
\* included, has its target allocated as an array of size n inside the
\* array region once the globals are allocated, never fails to compile,
\* and compiles to the n writes of its elements to the cells
\* arrays[name].offset + i, which hold the elements when the run is over
ListAssignAllocatesArray ==
    \A k \in 1..Len(input.tree) :
        IsListAssign(input.tree[k]) =>
            LET name == input.tree[k].targets[1].id
                elts == input.tree[k].value.elts
                n == Len(elts)
            IN  /\ pc \in {"functions", "main", "done"} =>
                      /\ name \in DOMAIN self.arrays
                      /\ self.arrays[name].size = n
                      /\ self.arrays[name].offset >= ARRAY_OFFSET
                      /\ self.arrays[name].offset + n <= ARRAY_OFFSET + MAX_ARRAY
                /\ ~(pc = "failed" /\ err.at = "main" /\ idx = k)
                /\ (input.family = "array" /\ pc = "main" /\ idx = k + 1) =>
                      LET w == ElementWrites(elts, self.arrays[name].offset)
                          out == self.opcodes
                      IN  /\ Len(out) >= Len(w)
                          /\ SubSeq(out, Len(out) - Len(w) + 1, Len(out)) = w
                /\ (input.family = "array" /\ Translated /\ vm.status = "halt") =>
                      \A i \in 1..n :
                          HeapGet(vm.heap, self.arrays[name].offset + i - 1) = elts[i].n

\* the function definitions with "name = [ ... ]" among their statements
HasListAssign(node) ==
    /\ node.kind = "FunctionDef"
    /\ \E j \in 1..Len(node.body) : IsListAssign(node.body[j])

\* C12: a function definition with an assignment of a list literal in its
\* body, of any length and with or without a global array of that name, is
\* rejected: the loop over the functions never gets past it, and translate
\* returns no output
FunctionListAssignRejected ==
    \A k \in 1..Len(input.tree) :
        HasListAssign(input.tree[k]) =>
            /\ ~(pc = "functions" /\ idx > k)
            /\ pc \notin {"main", "done"}

(***************************************************************************)
(* The allocator on its own, called in the order of translate: the         *)
(* globals and the arrays first, then for each function its arguments and  *)
(* its locals, which are cleared at the end of the function.  input is     *)
(* the last call.                                                          *)
(***************************************************************************)
ArraySizes == {0, 2, MAX_ARRAY - 2}

LastCall(op, name, size) == [family |-> "alloc", op |-> op, name |-> name, size |-> size]

\* the translator and the exception after a call
Returned(a) ==
    /\ self' = a.self
    /\ pc' = IF a.err = "none" THEN pc ELSE "failed"
    /\ err' = IF a.err = "none" THEN err ELSE [type |-> a.err, at |-> pc]
    /\ UNCHANGED <<counter, idx, vm>>

InitAlloc ==
    /\ input = LastCall("none", "", 0)
    /\ pc = "alloc_globals"
    /\ self = NewTranslator
    /\ counter = <<>>
    /\ idx = 1
    /\ err = NoError
    /\ vm = IdleVM

\* self.alloc_global(global_var) for the next global
CallAllocGlobal ==
    /\ pc = "alloc_globals"
    /\ LET name == "g" \o ToString(Cardinality(DOMAIN self.globals) + 1)
       IN  /\ input' = LastCall("alloc_global", name, 1)
           /\ Returned(alloc_global(self, name))

\* self.alloc_array(global_var, size) for the next array
CallAllocArray ==
    /\ pc = "alloc_globals"
    /\ Cardinality(DOMAIN self.arrays) < MaxArrays
    /\ \E size \in ArraySizes :
          LET name == "a" \o ToString(Cardinality(DOMAIN self.arrays) + 1)
          IN  /\ input' = LastCall("alloc_array", name, size)
              /\ Returned(alloc_array(self, name, size))

\* the loop over the functions begins
LookForFunctions ==
    /\ pc = "alloc_globals"
    /\ pc' = "alloc_locals"
    /\ input' = LastCall("functions", "", 0)
    /\ UNCHANGED <<self, counter, idx, err, vm>>

\* self.alloc_local(name) for the next argument or local of the function;
\* the first one may have the name of a global
CallAllocLocal ==
    /\ pc = "alloc_locals"
    /\ \E name \in IF DOMAIN self.locals = {} THEN {"l1", "g1"}
                   ELSE {"l" \o ToString(Cardinality(DOMAIN self.locals) + 1)} :
          /\ input' = LastCall("alloc_local", name, 1)
          /\ Returned(alloc_local(self, name))

\* self.locals.clear() at the end of translate_function
ClearLocals ==
    /\ pc = "alloc_locals"
    /\ DOMAIN self.locals # {}
    /\ self' = [self EXCEPT !.locals = [x \in {} |-> 0]]
    /\ input' = LastCall("clear", "", 0)
    /\ UNCHANGED <<pc, counter, idx, err, vm>>

NextAlloc ==
    \/ CallAllocGlobal
    \/ CallAllocArray
    \/ LookForFunctions
    \/ CallAllocLocal
    \/ ClearLocals

SpecAlloc == InitAlloc /\ [][NextAlloc]_vars

SameMaps(s, t) ==
    s.globals = t.globals /\ s.locals = t.locals /\ s.arrays = t.arrays

\* one call of the allocator: the translator before and after it, the
\* exception it raised, and what it had to check and to assign
AllocCall ==
    LET call == input'
        raised == err'.type
        nglobals == Cardinality(DOMAIN self.globals)
        nlocals == Cardinality(DOMAIN self.locals)
        allocated == SumSizes(self.arrays, DOMAIN self.arrays)
        full == IF call.op = "alloc_global"
                THEN VARIABLE_OFFSET + nglobals >= VARIABLE_OFFSET + MAX_VARIABLES
                ELSE IF call.op = "alloc_local"
                THEN VARIABLE_OFFSET + nglobals + nlocals
                        >= VARIABLE_OFFSET + MAX_VARIABLES
                ELSE allocated + call.size > MAX_ARRAY
    IN  call.op \in {"alloc_global", "alloc_local", "alloc_array"} =>
            /\ raised = (IF full THEN "TranslationFail" ELSE "none")
            /\ full => SameMaps(self', self)
            /\ (~full /\ call.op = "alloc_global") =>
                  /\ self'.globals = DictPut(self.globals, call.name,
                                             VARIABLE_OFFSET + nglobals)
                  /\ self'.locals = self.locals /\ self'.arrays = self.arrays
            /\ (~full /\ call.op = "alloc_local") =>
                  /\ self'.locals = DictPut(self.locals, call.name,
                                            VARIABLE_OFFSET + nglobals + nlocals)
                  /\ self'.globals = self.globals /\ self'.arrays = self.arrays
            /\ (~full /\ call.op = "alloc_array") =>
                  /\ self'.arrays = DictPut(self.arrays, call.name,
                                            [offset |-> ARRAY_OFFSET + allocated,
                                             size |-> call.size])
                  /\ self'.globals = self.globals /\ self'.locals = self.locals

\* C13: alloc_global and alloc_local raise TranslationFail exactly when the
\* offset they would assign is VARIABLE_OFFSET + MAX_VARIABLES or more, and
\* alloc_array exactly when the allocated total and the size exceed
\* MAX_ARRAY; a call that fails leaves globals, locals and arrays as they
\* were; a call that succeeds assigns VARIABLE_OFFSET + |globals|,
\* VARIABLE_OFFSET + |globals| + |locals|, or ARRAY_OFFSET and the sum of
\* the sizes allocated before, and changes nothing else
AllocContract == [][AllocCall]_vars

\* the arrays are full to the last cell, and a local is refused because
\* the globals and the locals before it fill the variables
AllocRefused ==
    /\ pc = "failed"
    /\ err.type = "TranslationFail"
    /\ input.op = "alloc_local"
    /\ Cardinality(DOMAIN self.globals) > 0
    /\ Cardinality(DOMAIN self.locals) > 0
    /\ SumSizes(self.arrays, DOMAIN self.arrays) = MAX_ARRAY

\* the cells of an array
ArrayRange(arr) == arr.offset..(arr.offset + arr.size - 1)

\* C14: in every state of the translation the offsets in globals and in
\* locals are pairwise distinct and lie in
\* [VARIABLE_OFFSET, VARIABLE_OFFSET + MAX_VARIABLES); the ranges of the
\* arrays are pairwise disjoint, lie in
\* [ARRAY_OFFSET, ARRAY_OFFSET + MAX_ARRAY), and hold no offset of a global
\* or a local
AllocationDisjoint ==
    LET g == self.globals
        l == self.locals
        arrs == self.arrays
        variables == {g[x] : x \in DOMAIN g} \cup {l[x] : x \in DOMAIN l}
    IN  /\ \A x, y \in DOMAIN g : x # y => g[x] # g[y]
        /\ \A x, y \in DOMAIN l : x # y => l[x] # l[y]
        /\ \A x \in DOMAIN g, y \in DOMAIN l : g[x] # l[y]
        /\ \A o \in variables :
              o >= VARIABLE_OFFSET /\ o < VARIABLE_OFFSET + MAX_VARIABLES
        /\ \A a, b \in DOMAIN arrs :
              a # b => ArrayRange(arrs[a]) \cap ArrayRange(arrs[b]) = {}
        /\ \A a \in DOMAIN arrs :
              /\ arrs[a].offset >= ARRAY_OFFSET
              /\ arrs[a].offset + arrs[a].size <= ARRAY_OFFSET + MAX_ARRAY
              /\ ArrayRange(arrs[a]) \cap variables = {}

\* the variables are full with globals and the locals of a function, one
\* of them with the name of a global, and the arrays are full
AllocationFull ==
    /\ pc = "alloc_locals"
    /\ Cardinality(DOMAIN self.globals) > 1
    /\ Cardinality(DOMAIN self.locals) > 1
    /\ "g1" \in DOMAIN self.locals
    /\ Cardinality(DOMAIN self.globals) + Cardinality(DOMAIN self.locals) = MAX_VARIABLES
    /\ Cardinality(DOMAIN self.arrays) > 1
    /\ SumSizes(self.arrays, DOMAIN self.arrays) = MAX_ARRAY

(***************************************************************************)
(* The While lowering and its literal                                      *)
(***************************************************************************)
\* the machine after the run of m, at most k instructions of it
RECURSIVE Exec(_, _)
Exec(m, k) ==
    IF k = 0 \/ m.status # "run" THEN m ELSE Exec(StepVM(m), k - 1)

\* C15: the lowering of a While starts with a literal of -L, L being the
\* length from the STACK_0 STACK_FIND that duplicates through the closing
\* GO: what num(-L) returns is a string of digit pushes, STACK_ADD,
\* STACK_MULTIPLY and STACK_SUBTRACT, and its run leaves -L on the stack
WhileStartsWithNegativeLiteral ==
    \A k \in 1..Len(input.tree) :
        (pc = "main" /\ idx = k /\ input.tree[k].kind = "While"
         /\ input.tree[k].orelse = <<>>) =>
            LET r == translate_node(self, input.tree[k])
                test == translate_node(self, input.tree[k].test)
                stmts == translate_nodes(self, input.tree[k].body)
                L == 2 + Len(test.ops) + Len(num(Len(stmts.ops) + 1).ops)
                       + 1 + Len(stmts.ops) + 1
                lit == SubSeq(r.ops, 1, Len(r.ops) - L - 2)
                m == Exec(LoadVM(lit, <<>>, EmptyHeap), Len(lit) + 1)
            IN  (IsOk(test) /\ IsOk(stmts)) =>
                    /\ IsOk(r)
                    /\ lit = num(0 - L).ops
                    /\ \A j \in 1..Len(lit) :
                          lit[j] \in (STACK_0..STACK_9)
                                     \cup {STACK_ADD, STACK_MULTIPLY, STACK_SUBTRACT}
                    /\ m.status = "halt"
                    /\ m.stack = <<0 - L>>

\* C16: in the string translate returns, the opcodes of every function of
\* the table stand at the offset of its entry (the first character of the
\* string has index 0), whatever the definitions were, a name defined twice
\* included: a CALL of the offset enters the body of the callee
BodyAtOffset ==
    Translated =>
        \A k \in 1..Len(self.functions) :
            LET f == self.functions[k]
            IN  /\ f.offset + Len(f.opcodes) <= Len(self.opcodes)
                /\ SubSeq(self.opcodes, f.offset + 1, f.offset + Len(f.opcodes))
                      = f.opcodes

(***************************************************************************)
(* The entry of a function on its own: the caller pushes the values of     *)
(* the arguments, the function moves them to the cells of its parameters.  *)
(***************************************************************************)
ArgValues == {0, 5, 23}

\* the translator with n globals
RECURSIVE GlobalsEnv(_)
GlobalsEnv(n) ==
    IF n = 0 THEN NewTranslator
    ELSE alloc_global(GlobalsEnv(n - 1), "g" \o ToString(n)).self

\* the parameters p1, ..., pk
Params(k) == [j \in 1..k |-> "p" \o ToString(j)]

InitEntry ==
    /\ \E k \in 0..MaxParams :
          input \in [family : {"entry"}, args : {Params(k)},
                     values : [1..k -> ArgValues], nglobals : 0..2,
                     base : {<<>>, <<7>>}]
    /\ pc = "entry"
    /\ self = GlobalsEnv(input.nglobals)
    /\ counter = <<>>
    /\ idx = 1
    /\ err = NoError
    /\ vm = IdleVM

\* the arguments of the call, then the first lines of translate_function
LowerEntry ==
    /\ pc = "entry"
    /\ vm.status = "idle"
    /\ LET a == alloc_args(self, input.args)
           push == translate_nodes(self, [j \in 1..Len(input.values) |->
                                            Num(input.values[j])])
           entry == transfer_args(a.self, input.args)
       IN  /\ a.err = "none" /\ IsOk(push) /\ IsOk(entry)
           /\ self' = a.self
           /\ vm' = LoadVM(push.ops \o entry.ops, input.base, EmptyHeap)
    /\ UNCHANGED <<input, pc, counter, idx, err>>

NextEntry == LowerEntry \/ VMStep

SpecEntry == InitEntry /\ [][NextEntry]_vars

\* C17: after the values v1, ..., vk of a call are pushed from left to
\* right and the entry of the function has run (a write to the cell of each
\* parameter, the last parameter first), the cell of the i-th parameter
\* holds vi for every i and the k values are gone from the stack
ParametersTransferred ==
    (pc = "entry" /\ vm.status # "idle") =>
        /\ vm.status # "error"
        /\ vm.ip >= Len(vm.code) =>
              /\ \A i \in 1..Len(input.args) :
                    HeapGet(vm.heap, self.locals[input.args[i]]) = input.values[i]
              /\ vm.stack = input.base

\* three parameters above a global have taken three different values
ParametersInHeap ==
    /\ pc = "entry"
    /\ vm.status = "halt"
    /\ Len(input.args) >= 3
    /\ input.nglobals > 0
    /\ input.base # <<>>
    /\ input.values[1] # input.values[2]
    /\ input.values[2] # input.values[3]
    /\ input.values[1] # input.values[3]
    /\ vm.steps > 6

(***************************************************************************)
(* Return                                                                  *)
(***************************************************************************)
\* the translator as translate_function has it when it lowers the body of
\* node: the arguments and the locals of node are allocated
BodyEnv(node) ==
    alloc_locals(alloc_args(self, node.args).self,
                 VariableCounter(node).ops, node.args).self

\* the places, counted from at, of the last opcode of every Return among
\* the statements nodes, which are lowered from the place at on
RECURSIVE ReturnsIn(_, _, _)
ReturnsIn(env, nodes, at) ==
    IF nodes = <<>> THEN {}
    ELSE LET n == Head(nodes)
             len == Len(translate_node(env, n).ops)
             here ==
                 IF n.kind = "Return" THEN {at + len - 1}
                 ELSE IF n.kind = "If" THEN
                     LET t == Len(translate_node(env, n.test).ops)
                         b == Len(translate_nodes(env, n.body).ops)
                         e == Len(translate_nodes(env, n.orelse).ops)
                         jump == b + Len(num(e).ops) + 1
                         body_at == at + t + Len(num(jump).ops) + 1
                     IN  ReturnsIn(env, n.body, body_at)
                            \cup ReturnsIn(env, n.orelse, body_at + jump)
                 ELSE {}
         IN  here \cup ReturnsIn(env, Tail(nodes), at + len)

\* C18: a Return ends the run of its function: in a function that is
\* called once, when the lowering of a Return of statement j of the body
\* (the statement itself, or inside its if) has run, no opcode of a
\* statement after j has run before the RETURN of the function
ReturnEndsFunction ==
    (input.family = "return" /\ Translated) =>
        LET node == input.tree[1]
            f == FuncGet(self.functions, node.name)
            env == BodyEnv(node)
            entry == Len(transfer_args(env, node.args).ops)
            start(j) == f.offset + entry
                           + Len(translate_nodes(env, SubSeq(node.body, 1, j - 1)).ops)
            last == f.offset + Len(f.opcodes) - 1
        IN  /\ f.opcodes[Len(f.opcodes)] = RETURN
            /\ \A j \in 1..Len(node.body) :
                  \A r \in ReturnsIn(env, <<node.body[j]>>, start(j)) :
                      r \in vm.seen =>
                          \A ip \in vm.seen : ~(ip >= start(j + 1) /\ ip < last)

(***************************************************************************)
(* The cells of the functions                                              *)
(***************************************************************************)
\* the heap offsets of the parameters and the locals of a function
CellsOf(node) == {BodyEnv(node).locals[x] : x \in DOMAIN BodyEnv(node).locals}

\* C19: the parameters and the locals of two different functions have
\* disjoint heap offsets, so that when f(a) has called g and g has
\* returned, the cell of a holds what it held before the call
FramesDisjoint ==
    Translated =>
        LET tree == input.tree
            defs == {k \in 1..Len(tree) : tree[k].kind = "FunctionDef"}
        IN  /\ \A i, j \in defs :
                  tree[i].name # tree[j].name =>
                      CellsOf(tree[i]) \cap CellsOf(tree[j]) = {}
            /\ input.family = "frame" =>
                  LET g == FuncGet(self.functions, "g")
                      fnode == tree[Len(tree) - 1]
                  IN  (Len(vm.calls) = 1
                       /\ (g.offset + Len(g.opcodes) - 1) \in vm.seen) =>
                          HeapGet(vm.heap, BodyEnv(fnode).locals["a"])
                             = tree[Len(tree)].value.args[1].n

(***************************************************************************)
(* The BoolOp lowering on its own: "v1 op v2 op ..." for operands that are *)
(* 0 or 1, run on a stack that holds base.                                 *)
(***************************************************************************)
InitBoolOp ==
    /\ \E k \in 2..MaxValues :
          input \in [family : {"boolop"}, op : {"And", "Or"},
                     values : [1..k -> 0..1], base : {<<>>, <<7>>}]
    /\ pc = "boolop"
    /\ self = NewTranslator
    /\ counter = <<>>
    /\ idx = 1
    /\ err = NoError
    /\ vm = IdleVM

LowerBoolOp ==
    /\ pc = "boolop"
    /\ vm.status = "idle"
    /\ LET r == translate_node(self,
                    BoolOp(input.op, [j \in 1..Len(input.values) |->
                                         Num(input.values[j])]))
       IN  /\ IsOk(r)
           /\ vm' = LoadVM(r.ops, input.base, EmptyHeap)
    /\ UNCHANGED <<input, trvars>>

NextBoolOp == LowerBoolOp \/ VMStep

SpecBoolOp == InitBoolOp /\ [][NextBoolOp]_vars

\* C20: the lowering of an Or over two operands or more that are 0 or 1
\* takes the operands and leaves exactly 1 if one operand at least is 1,
\* and 0 if all are 0
OrLeavesBoolean ==
    (pc = "boolop" /\ input.op = "Or" /\ vm.status # "idle") =>
        /\ vm.status # "error"
        /\ (vm.ip >= Len(vm.code) =>
              vm.stack = Append(input.base,
                                IF \E i \in 1..Len(input.values) : input.values[i] = 1
                                THEN 1 ELSE 0))

(***************************************************************************)
(* Unsupported constructs                                                  *)
(***************************************************************************)
\* TranslationError and its subclasses
TranslationErrors == {"TranslationError", "TranslationFail", "TranslationUnknown"}

NamesOf(c) == {c.ops[k].name : k \in 1..Len(c.ops)}

\* the names that are assigned somewhere in the program, or are parameters
KnownNames(tree) ==
    NamesOf(VariableCounter([kind |-> "Module", body |-> tree]))
    \cup UNION { NamesOf(VariableCounter(tree[k]))
                    \cup {tree[k].args[j] : j \in 1..Len(tree[k].args)} :
                 k \in {i \in 1..Len(tree) : tree[i].kind = "FunctionDef"} }

\* the names of the functions the program defines
DefinedNames(tree) ==
    {tree[k].name : k \in {i \in 1..Len(tree) : tree[i].kind = "FunctionDef"}}

\* node holds a construct without a lowering: a node kind without a
\* handler, several targets, several operators or comparators, a while
\* with an else, a callee that is no name, a call of a name that is no
\* built-in and no function, a read of a name that is no variable
RECURSIVE Unsupported(_, _, _)
Unsupported(node, known, defined) ==
    LET U(n) == Unsupported(n, known, defined)
        Some(ns) == \E j \in 1..Len(ns) : U(ns[j])
        kind == node.kind
    IN  IF kind = "Num" THEN FALSE
        ELSE IF kind = "Name" THEN node.id \notin known
        ELSE IF kind = "Subscript" THEN U(node.index)
        ELSE IF kind = "BinOp" THEN U(node.left) \/ U(node.right)
        ELSE IF kind = "BoolOp" THEN Some(node.values)
        ELSE IF kind = "Assign" THEN
            \/ Len(node.targets) > 1
            \/ node.targets[1].kind \notin {"Name", "Subscript"}
            \/ node.targets[1].kind = "Subscript" /\ U(node.targets[1])
            \/ IF node.value.kind = "List" THEN Some(node.value.elts)
               ELSE U(node.value)
        ELSE IF kind = "AugAssign" THEN
            \/ node.target.kind \notin {"Name", "Subscript"}
            \/ node.target.kind = "Name" /\ U(node.target)
            \/ U(node.value)
        ELSE IF kind = "If" THEN
            U(node.test) \/ Some(node.body) \/ Some(node.orelse)
        ELSE IF kind = "Compare" THEN
            \/ Len(node.ops) > 1 \/ Len(node.comparators) > 1
            \/ U(node.left) \/ Some(node.comparators)
        ELSE IF kind = "Call" THEN
            \/ node.func.kind # "Name"
            \/ node.func.kind = "Name" /\ node.func.id \notin BuiltIns \cup defined
            \/ Some(node.args)
        ELSE IF kind = "While" THEN
            node.orelse # <<>> \/ U(node.test) \/ Some(node.body)
        ELSE IF kind \in {"Expr", "Return"} THEN U(node.value)
        ELSE TRUE

\* the same for statement k of the program: the body of a function is
\* lowered, "from stubs import *" is not
UnsupportedAt(tree, k) ==
    LET known == KnownNames(tree)
        defined == DefinedNames(tree)
    IN  IF tree[k].kind = "FunctionDef"
        THEN \E j \in 1..Len(tree[k].body) :
                Unsupported(tree[k].body[j], known, defined)
        ELSE IF tree[k].kind = "ImportFrom" /\ tree[k].module = "stubs" THEN FALSE
        ELSE Unsupported(tree[k], known, defined)

\* C21: when the program holds a construct without a lowering, translate
\* raises a TranslationError and returns nothing: the loop over the
\* functions does not get past a function that holds one, the loop over
\* the statements does not get past a statement that holds one, and the
\* exception that ends the translation is a TranslationError
UnsupportedAborts ==
    \A k \in 1..Len(input.tree) :
        UnsupportedAt(input.tree, k) =>
            /\ pc # "done"
            /\ ~(pc = "main" /\ idx > k)
            /\ input.tree[k].kind = "FunctionDef" =>
                  (~(pc = "functions" /\ idx > k) /\ pc # "main")
            /\ pc = "failed" => err.type \in TranslationErrors

=============================================================================
